---- MODULE Spec2Model ----
(***************************************************************************)
(* A model of the Lisp interpreter: the evaluator and its environment      *)
(* (src/env.py) and the parser (src/parser.py).                            *)
(*                                                                         *)
(* Python values and parsed expressions share one universe (quote returns  *)
(* its operand unevaluated), so both are records tagged by t, the payload  *)
(* in a field of its own per type:                                         *)
(*   int  - Python int (n)      sym  - Python str, a symbol (s)            *)
(*   bool - True / False (b)    none - None                                *)
(*   list - Python list (l), a sequence of values                          *)
(***************************************************************************)
EXTENDS Integers, Sequences, FiniteSets, TLC

VARIABLES
    variables,   \* self.variables of the session's Environment
    functions,   \* self.functions of the session's Environment (shared table)
    last,        \* record of the last top-level evaluate_expression call
    src,         \* parser: the expression text X under test
    ctx,         \* parser: where the quoted form is placed in the input
    sugar,       \* parser: result of parsing the input written with 'X
    longhand     \* parser: result of parsing the input written with (quote X)

vars == <<variables, functions, last, src, ctx, sugar, longhand>>

(***************************************************************************)
(* Bounds.                                                                 *)
(***************************************************************************)
\* Nested evaluate_expression activations the host allows before it raises
\* RecursionError (CPython's limit, scaled down).
RecursionLimit == 6
\* Longest expression text X drawn for the parser.
MaxLen == 4

(***************************************************************************)
(* Values.                                                                 *)
(***************************************************************************)
IntV(n) == [t |-> "int", n |-> n]
SymV(s) == [t |-> "sym", s |-> s]
ListV(q) == [t |-> "list", l |-> q]
TrueV == [t |-> "bool", b |-> TRUE]
FalseV == [t |-> "bool", b |-> FALSE]
Bool(b) == [t |-> "bool", b |-> b]
NoneV == [t |-> "none"]

\* dict[k] = v on a Python dict modelled as a function
Put(d, k, v) == [x \in (DOMAIN d) \cup {k} |-> IF x = k THEN v ELSE d[x]]

\* str(expression[0]): the text of a symbol; the repr of any other node is
\* never a key of self.variables and never equal to 'quote'.
StrOf(e) == IF e.t = "sym" THEN e.s ELSE "#repr"

\* bool and int are both Python numbers (True == 1, False == 0)
IsNum(a) == a.t \in {"int", "bool"}
NumOf(a) == IF a.t = "bool" THEN (IF a.b THEN 1 ELSE 0) ELSE a.n

\* Python truthiness of a value
Truthy(a) ==
    CASE a.t = "none" -> FALSE
      [] a.t = "bool" -> a.b
      [] a.t = "int" -> a.n # 0
      [] a.t = "list" -> a.l # <<>>
      [] OTHER -> TRUE

\* Python a == b
PyEq(a, b) == IF IsNum(a) /\ IsNum(b) THEN NumOf(a) = NumOf(b) ELSE a = b

(***************************************************************************)
(* The function table built by Environment.__init__.                       *)
(***************************************************************************)
BuiltinNames ==
    {"+", "-", "*", "/", ">", "<", "=", "!=", "and", "or", "not", "car",
     "cdr", "cons", "sqrt", "pow", "define", "if", "set!", "defun", "mapcar"}

\* a bound method of the session's Environment
Builtin(n) == [kind |-> "builtin", name |-> n, params |-> <<>>, body |-> NoneV]
\* the closure user_function made by defun
UserFn(n, ps, b) == [kind |-> "user", name |-> n, params |-> ps, body |-> b]

InitVariables == [k \in {"T", "NIL"} |-> IF k = "T" THEN TrueV ELSE NoneV]
InitFunctions == [n \in BuiltinNames |-> Builtin(n)]

(***************************************************************************)
(* Evaluation context.  root is the variable mapping of the session's      *)
(* Environment, loc the mapping of the child Environment a user function   *)
(* body runs in (top = FALSE), fn the function table, which every          *)
(* Environment shares, log the user_function invocations made so far.      *)
(***************************************************************************)
Ctx(rootvars, fns) ==
    [root |-> rootvars, loc |-> rootvars, top |-> TRUE, fn |-> fns, log |-> <<>>]

\* self.variables of the Environment evaluating
CurVars(st) == IF st.top THEN st.root ELSE st.loc

\* self.variables[k] = v
WriteCur(st, k, v) ==
    IF st.top THEN [st EXCEPT !.root = Put(@, k, v)]
    ELSE [st EXCEPT !.loc = Put(@, k, v)]

Ok(val, st, d) == [err |-> "ok", val |-> val, st |-> st, depth |-> d]
Fail(e, st, d) == [err |-> e, val |-> NoneV, st |-> st, depth |-> d]

Max(a, b) == IF a >= b THEN a ELSE b

(***************************************************************************)
(* Python's int is unbounded, while the checker's integers are 32-bit:     *)
(* intermediate results are kept as sign and magnitude, the magnitude a    *)
(* little-endian sequence of base-2^15 digits without leading zeros.       *)
(***************************************************************************)
Base == 32768

RECURSIVE MagOf(_)
MagOf(n) == IF n = 0 THEN <<>> ELSE <<n % Base>> \o MagOf(n \div Base)

RECURSIVE MagAdd(_, _, _)
MagAdd(a, b, carry) ==
    IF a = <<>> /\ b = <<>> THEN (IF carry = 0 THEN <<>> ELSE <<carry>>)
    ELSE LET x == IF a = <<>> THEN 0 ELSE Head(a)
             y == IF b = <<>> THEN 0 ELSE Head(b)
             ra == IF a = <<>> THEN <<>> ELSE Tail(a)
             rb == IF b = <<>> THEN <<>> ELSE Tail(b)
         IN  <<(x + y + carry) % Base>> \o MagAdd(ra, rb, (x + y + carry) \div Base)

\* -1, 0 or 1 as a < b, a = b or a > b
RECURSIVE MagCmp(_, _)
MagCmp(a, b) ==
    IF Len(a) # Len(b) THEN (IF Len(a) < Len(b) THEN -1 ELSE 1)
    ELSE IF a = <<>> THEN 0
    ELSE IF a[Len(a)] # b[Len(b)] THEN (IF a[Len(a)] < b[Len(b)] THEN -1 ELSE 1)
    ELSE MagCmp(SubSeq(a, 1, Len(a) - 1), SubSeq(b, 1, Len(b) - 1))

RECURSIVE Trim(_)
Trim(a) ==
    IF a = <<>> THEN a
    ELSE IF a[Len(a)] = 0 THEN Trim(SubSeq(a, 1, Len(a) - 1)) ELSE a

\* a - b for a >= b
RECURSIVE MagSubRaw(_, _, _)
MagSubRaw(a, b, borrow) ==
    IF a = <<>> THEN <<>>
    ELSE LET y == (IF b = <<>> THEN 0 ELSE Head(b)) + borrow
             rb == IF b = <<>> THEN <<>> ELSE Tail(b)
         IN  IF Head(a) >= y THEN <<Head(a) - y>> \o MagSubRaw(Tail(a), rb, 0)
             ELSE <<Head(a) + Base - y>> \o MagSubRaw(Tail(a), rb, 1)
MagSub(a, b) == Trim(MagSubRaw(a, b, 0))

\* a * digit
RECURSIVE MagScale(_, _, _)
MagScale(a, digit, carry) ==
    IF a = <<>> THEN (IF carry = 0 THEN <<>> ELSE <<carry>>)
    ELSE <<(Head(a) * digit + carry) % Base>>
         \o MagScale(Tail(a), digit, (Head(a) * digit + carry) \div Base)

RECURSIVE MagMul(_, _)
MagMul(a, b) ==
    IF b = <<>> THEN <<>>
    ELSE Trim(MagAdd(MagScale(a, Head(b), 0), <<0>> \o MagMul(a, Tail(b)), 0))

Big(neg, mag) == [neg |-> neg /\ mag # <<>>, mag |-> mag]
\* the Python int of a checker integer
BigOf(n) == IF n >= 0 THEN Big(FALSE, MagOf(n))
            ELSE Big(TRUE, MagAdd(MagOf(-(n + 1)), <<1>>, 0))
BigAdd(a, b) ==
    IF a.neg = b.neg THEN Big(a.neg, MagAdd(a.mag, b.mag, 0))
    ELSE IF MagCmp(a.mag, b.mag) >= 0 THEN Big(a.neg, MagSub(a.mag, b.mag))
    ELSE Big(b.neg, MagSub(b.mag, a.mag))
BigNeg(a) == Big(~a.neg, a.mag)
BigMul(a, b) == Big(a.neg # b.neg, MagMul(a.mag, b.mag))
\* a < b
BigLess(a, b) ==
    IF a.neg # b.neg THEN a.neg
    ELSE IF a.neg THEN MagCmp(a.mag, b.mag) > 0
    ELSE MagCmp(a.mag, b.mag) < 0

\* the checker integer of a Python int within the 32-bit range
RECURSIVE NegMag(_)
NegMag(mag) == IF mag = <<>> THEN 0 ELSE NegMag(Tail(mag)) * Base - Head(mag)
SmallOf(a) == IF a.neg THEN NegMag(a.mag) ELSE -NegMag(a.mag)

(***************************************************************************)
(* Arithmetic builtins.                                                    *)
(***************************************************************************)
INT_MAX == 2147483647
INT_MIN == -INT_MAX - 1

\* check_32bit: TRUE when the value passes the range check
check_32bit(value) ==
    ~(BigLess(value, BigOf(INT_MIN)) \/ BigLess(BigOf(INT_MAX), value))

\* sum(args)
RECURSIVE SumOf(_)
SumOf(args) ==
    IF args = <<>> THEN BigOf(0)
    ELSE BigAdd(BigOf(NumOf(Head(args))), SumOf(Tail(args)))

\* add: sum(args), one range check on the total
add(args, st, d) ==
    IF \E i \in DOMAIN args : ~IsNum(args[i]) THEN Fail("TypeError", st, d)
    ELSE IF check_32bit(SumOf(args)) THEN Ok(IntV(SmallOf(SumOf(args))), st, d)
    ELSE Fail("OverflowError", st, d)

\* subtract: exactly two arguments
subtract(args, st, d) ==
    IF Len(args) # 2 \/ \E i \in DOMAIN args : ~IsNum(args[i])
    THEN Fail("TypeError", st, d)
    ELSE LET result == BigAdd(BigOf(NumOf(args[1])), BigNeg(BigOf(NumOf(args[2]))))
         IN  IF check_32bit(result) THEN Ok(IntV(SmallOf(result)), st, d)
             ELSE Fail("OverflowError", st, d)

\* the mutation a faulty multiply would make: one range check, on the product
RECURSIVE MulLoopFinalCheck(_, _)
MulLoopFinalCheck(result, args) ==
    IF args = <<>> THEN [ovf |-> ~check_32bit(result), v |-> result]
    ELSE MulLoopFinalCheck(BigMul(result, BigOf(NumOf(Head(args)))), Tail(args))

\* the loop of multiply: result *= arg, then check_32bit(result), per argument
RECURSIVE MulLoop(_, _)
MulLoop(result, args) ==
    IF args = <<>> THEN [ovf |-> FALSE, v |-> result]
    ELSE LET next == BigMul(result, BigOf(NumOf(Head(args))))
         IN  IF check_32bit(next) THEN MulLoop(next, Tail(args))
             ELSE [ovf |-> TRUE, v |-> next]

multiply(args, st, d) ==
    IF \E i \in DOMAIN args : ~IsNum(args[i]) THEN Fail("TypeError", st, d)
    ELSE IF MulLoop(BigOf(1), args).ovf THEN Fail("OverflowError", st, d)
    ELSE Ok(IntV(SmallOf(MulLoop(BigOf(1), args).v)), st, d)

(***************************************************************************)
(* Comparison, logical and list builtins.                                  *)
(***************************************************************************)
greater_than(args, st, d) ==
    IF Len(args) # 2 \/ \E i \in DOMAIN args : ~IsNum(args[i])
    THEN Fail("TypeError", st, d)
    ELSE Ok(Bool(NumOf(args[1]) > NumOf(args[2])), st, d)

less_than(args, st, d) ==
    IF Len(args) # 2 \/ \E i \in DOMAIN args : ~IsNum(args[i])
    THEN Fail("TypeError", st, d)
    ELSE Ok(Bool(NumOf(args[1]) < NumOf(args[2])), st, d)

equals(args, st, d) ==
    IF Len(args) # 2 THEN Fail("TypeError", st, d)
    ELSE Ok(Bool(PyEq(args[1], args[2])), st, d)

not_equal(args, st, d) ==
    IF Len(args) # 2 THEN Fail("TypeError", st, d)
    ELSE Ok(Bool(~PyEq(args[1], args[2])), st, d)

and_operator(args, st, d) ==
    IF Len(args) # 2 THEN Fail("TypeError", st, d)
    ELSE Ok(IF Truthy(args[1]) THEN args[2] ELSE args[1], st, d)

or_operator(args, st, d) ==
    IF Len(args) # 2 THEN Fail("TypeError", st, d)
    ELSE Ok(IF Truthy(args[1]) THEN args[1] ELSE args[2], st, d)

not_operator(args, st, d) ==
    IF Len(args) # 1 THEN Fail("TypeError", st, d)
    ELSE Ok(Bool(~Truthy(args[1])), st, d)

car(args, st, d) ==
    IF Len(args) # 1 THEN Fail("TypeError", st, d)
    ELSE IF args[1].t = "list"
    THEN Ok(IF args[1].l = <<>> THEN NoneV ELSE Head(args[1].l), st, d)
    ELSE Ok(args[1], st, d)

cdr(args, st, d) ==
    IF Len(args) # 1 THEN Fail("TypeError", st, d)
    ELSE IF args[1].t = "list"
    THEN Ok(IF args[1].l = <<>> THEN NoneV ELSE ListV(Tail(args[1].l)), st, d)
    ELSE Fail("SyntaxError", st, d)

\* the empty list normalised to None
NilIfEmpty(a) == IF a = ListV(<<>>) THEN NoneV ELSE a

cons(args, st, d) ==
    IF Len(args) # 2 THEN Fail("TypeError", st, d)
    ELSE LET a == NilIfEmpty(args[1])
             b == NilIfEmpty(args[2])
         IN  IF a = NoneV /\ b = NoneV THEN Ok(NoneV, st, d)
             ELSE IF b.t = "list" THEN Ok(ListV(<<a>> \o b.l), st, d)
             ELSE Ok(ListV(<<a, SymV("."), b>>), st, d)

(***************************************************************************)
(* Environment and state management builtins.  The table entries are       *)
(* methods bound to the session's Environment, whose table every child     *)
(* Environment shares: reached through the table, define, set and defun    *)
(* act on the session's Environment whichever Environment evaluates.       *)
(***************************************************************************)
define(args, st, d) ==
    IF Len(args) # 2 THEN Fail("TypeError", st, d)
    ELSE IF args[1].t # "sym" THEN Fail("TypeError", st, d)
    ELSE Ok(args[1], [st EXCEPT !.root = Put(@, args[1].s, args[2])], d)

\* the mutation a faulty if_cond would make: truthiness instead of 'is True'
if_cond_truthy(args, st, d) ==
    IF Len(args) # 3 THEN Fail("TypeError", st, d)
    ELSE IF Truthy(args[1]) THEN Ok(args[2], st, d) ELSE Ok(args[3], st, d)

if_cond(args, st, d) ==
    IF Len(args) # 3 THEN Fail("TypeError", st, d)
    ELSE IF args[1] = TrueV THEN Ok(args[2], st, d) ELSE Ok(args[3], st, d)

\* the mutation a faulty set would make: no existence check, as define
set_unchecked(var_name, value, st, d, onRoot) ==
    IF var_name.t # "sym" THEN Fail("SyntaxError", st, d)
    ELSE IF onRoot THEN Ok(var_name, [st EXCEPT !.root = Put(@, var_name.s, value)], d)
    ELSE Ok(var_name, WriteCur(st, var_name.s, value), d)

\* Environment.set; onRoot: called through the table (the session's
\* Environment) rather than as self.set (the Environment evaluating)
set(var_name, value, st, d, onRoot) ==
    IF var_name.t # "sym" THEN Fail("SyntaxError", st, d)
    ELSE IF var_name.s \notin DOMAIN (IF onRoot THEN st.root ELSE CurVars(st))
    THEN Fail("NameError", st, d)
    ELSE IF onRoot THEN Ok(var_name, [st EXCEPT !.root = Put(@, var_name.s, value)], d)
    ELSE Ok(var_name, WriteCur(st, var_name.s, value), d)

defun(args, st, d) ==
    IF Len(args) # 3 THEN Fail("TypeError", st, d)
    ELSE IF args[1].t # "sym" THEN Fail("SyntaxError", st, d)
    ELSE IF args[2].t # "list" THEN Fail("SyntaxError", st, d)
    ELSE Ok(args[1],
            [st EXCEPT !.fn = Put(@, args[1].s, UserFn(args[1].s, args[2].l, args[3]))],
            d)

(***************************************************************************)
(* The evaluator.  Every operator returns [err, val, st, depth]: err is    *)
(* "ok" or the exception raised, st the context when it returned or        *)
(* raised (nothing is rolled back), depth the deepest evaluate_expression  *)
(* activation reached.  d is the depth of the activation running.          *)
(***************************************************************************)
\* local_env.variables[param] = arg for param, arg in zip(params, args)
RECURSIVE Bind(_, _, _)
Bind(base, params, args) ==
    IF params = <<>> \/ args = <<>> THEN base
    ELSE Bind(Put(base, Head(params).s, Head(args)), Tail(params), Tail(args))

\* the mutation a faulty user_function would make: copying the mapping of
\* the Environment that makes the call
ChildBaseOfCaller(st) == CurVars(st)

\* self.variables.copy() in user_function: self is the Environment whose
\* defun method built the closure, and the table holds only the session's
ChildBase(st) == st.root

\* zip(*lists): the number of tuples
RECURSIVE MinLen(_)
MinLen(lists) ==
    IF Len(lists) = 1 THEN Len(Head(lists).l)
    ELSE IF Len(Head(lists).l) <= MinLen(Tail(lists)) THEN Len(Head(lists).l)
    ELSE MinLen(Tail(lists))

\* the mutation a faulty arity check would make: extra arguments tolerated
ArityAtLeast(f, args) == Len(args) >= Len(f.params)

\* len(args) != len(params) raises
ArityOk(f, args) == Len(args) = Len(f.params)

RECURSIVE evaluate_expression(_, _, _)
RECURSIVE evaluate_function_call(_, _, _)
RECURSIVE EvalOperands(_, _, _)
RECURSIVE Apply(_, _, _, _)
RECURSIVE user_function(_, _, _, _)
RECURSIVE mapcar(_, _, _, _, _, _)

\* the mutation a faulty lookup would make: the bound value evaluated again
LookupEvaluated(name, st, d) == evaluate_expression(CurVars(st)[name], st, d + 1)

\* return self.variables[name]
Lookup(name, st, d) == Ok(CurVars(st)[name], st, d)

\* [self.evaluate_expression(operand) for operand in operands]
EvalOperands(operands, st, d) ==
    IF operands = <<>> THEN [err |-> "ok", vals |-> <<>>, st |-> st, depth |-> d - 1]
    ELSE LET r == evaluate_expression(Head(operands), st, d)
         IN  IF r.err # "ok"
             THEN [err |-> r.err, vals |-> <<>>, st |-> r.st, depth |-> r.depth]
             ELSE LET rest == EvalOperands(Tail(operands), r.st, d)
                  IN  [err |-> rest.err,
                       vals |-> IF rest.err = "ok" THEN <<r.val>> \o rest.vals ELSE <<>>,
                       st |-> rest.st,
                       depth |-> Max(r.depth, rest.depth)]

\* the closure built by defun, called with the evaluated arguments
user_function(f, args, st, d) ==
    IF ~ArityOk(f, args) THEN Fail("TypeError", st, d)
    ELSE IF \E i \in DOMAIN f.params : f.params[i].t # "sym"
    THEN Fail("TypeError", st, d)
    ELSE LET child == Bind(ChildBase(st), f.params, args)
             r == evaluate_expression(f.body,
                                      [st EXCEPT !.top = FALSE, !.loc = child],
                                      d + 1)
             entry == [name |-> f.name,
                       params |-> {f.params[i].s : i \in DOMAIN f.params},
                       caller |-> CurVars(st),
                       root |-> st.root,
                       child |-> child,
                       callerAfter |-> IF st.top THEN r.st.root ELSE st.loc,
                       depth |-> d + 1,
                       err |-> r.err]
         IN  [r EXCEPT !.st = [r.st EXCEPT !.top = st.top,
                                           !.loc = st.loc,
                                           !.log = Append(@, entry)]]

\* [self.functions[func](*values) for values in zipped_list], from tuple i on
mapcar(func, lists, i, acc, st, d) ==
    IF i > MinLen(lists) THEN Ok(ListV(acc), st, d)
    ELSE IF func.t = "list" THEN Fail("TypeError", st, d)
    ELSE IF func.t # "sym" \/ func.s \notin DOMAIN st.fn THEN Fail("KeyError", st, d)
    ELSE LET r == Apply(st.fn[func.s], [j \in DOMAIN lists |-> lists[j].l[i]], st, d)
         IN  IF r.err # "ok" THEN r
             ELSE LET rest == mapcar(func, lists, i + 1, Append(acc, r.val), r.st, d)
                  IN  [rest EXCEPT !.depth = Max(r.depth, rest.depth)]

\* self.functions[operator](*args): a bound method of the session's
\* Environment or a closure built by defun.  divide, sqrt, power and mapcar
\* called through the table are outside the expressions evaluated here.
Apply(f, args, st, d) ==
    IF f.kind = "user" THEN user_function(f, args, st, d)
    ELSE CASE f.name = "+" -> add(args, st, d)
           [] f.name = "-" -> subtract(args, st, d)
           [] f.name = "*" -> multiply(args, st, d)
           [] f.name = ">" -> greater_than(args, st, d)
           [] f.name = "<" -> less_than(args, st, d)
           [] f.name = "=" -> equals(args, st, d)
           [] f.name = "!=" -> not_equal(args, st, d)
           [] f.name = "and" -> and_operator(args, st, d)
           [] f.name = "or" -> or_operator(args, st, d)
           [] f.name = "not" -> not_operator(args, st, d)
           [] f.name = "car" -> car(args, st, d)
           [] f.name = "cdr" -> cdr(args, st, d)
           [] f.name = "cons" -> cons(args, st, d)
           [] f.name = "define" -> define(args, st, d)
           [] f.name = "if" -> if_cond(args, st, d)
           [] f.name = "set!" ->
                IF Len(args) # 2 THEN Fail("TypeError", st, d)
                ELSE set(args[1], args[2], st, d, TRUE)
           [] f.name = "defun" -> defun(args, st, d)
           [] OTHER -> Fail("Unmodelled", st, d)

evaluate_function_call(expression, st, d) ==
    LET operator == expression.l[1].s
        operands == Tail(expression.l)
    IN  IF operator \notin DOMAIN st.fn THEN Fail("NameError", st, d)
        ELSE IF operator = "set!"
        THEN IF Len(operands) # 2 THEN Fail("SyntaxError", st, d)
             ELSE LET r == evaluate_expression(operands[2], st, d + 1)
                  IN  IF r.err # "ok" THEN r
                      ELSE [set(operands[1], r.val, r.st, d, FALSE)
                                EXCEPT !.depth = r.depth]
        ELSE IF operator = "defun" THEN Apply(st.fn[operator], operands, st, d)
        ELSE IF operator = "mapcar"
        THEN IF Len(operands) < 2 THEN Fail("SyntaxError", st, d)
             ELSE LET rs == EvalOperands(operands, st, d + 1)
                  IN  IF rs.err # "ok" THEN Fail(rs.err, rs.st, rs.depth)
                      ELSE IF \E i \in 2..Len(rs.vals) : rs.vals[i].t # "list"
                      THEN Fail("TypeError", rs.st, rs.depth)
                      ELSE LET r == mapcar(rs.vals[1], Tail(rs.vals), 1, <<>>, rs.st, d)
                           IN  [r EXCEPT !.depth = Max(r.depth, rs.depth)]
        ELSE LET rs == EvalOperands(operands, st, d + 1)
             IN  IF rs.err # "ok" THEN Fail(rs.err, rs.st, rs.depth)
                 ELSE LET r == Apply(st.fn[operator], rs.vals, rs.st, d)
                      IN  [r EXCEPT !.depth = Max(r.depth, rs.depth)]

evaluate_expression(expression, st, d) ==
    IF d > RecursionLimit THEN Fail("RecursionError", st, d)
    ELSE IF expression.t = "list"
    THEN IF expression.l = <<>> THEN Fail("IndexError", st, d)
         ELSE IF StrOf(expression.l[1]) \in DOMAIN CurVars(st)
         THEN Lookup(StrOf(expression.l[1]), st, d)
         ELSE IF StrOf(expression.l[1]) = "quote"
         THEN IF Len(expression.l) # 2 THEN Fail("SyntaxError", st, d)
              ELSE Ok(expression.l[2], st, d)
         ELSE IF expression.l[1].t # "sym" THEN Fail("SyntaxError", st, d)
         ELSE evaluate_function_call(expression, st, d)
    ELSE IF expression.t = "sym" /\ expression.s \in DOMAIN CurVars(st)
    THEN Lookup(expression.s, st, d)
    ELSE Ok(expression, st, d)

\* one call of the public entry point on the session's Environment
Evaluate(expression, rootvars, fns) ==
    evaluate_expression(expression, Ctx(rootvars, fns), 1)

(***************************************************************************)
(* The parser (src/parser.py).  A text is a sequence of one-character      *)
(* strings, a token a text.  Every routine returns [err, tree]: err is     *)
(* "ok" or the exception raised.                                           *)
(***************************************************************************)
Digits == {"0", "1", "2", "3", "4", "5", "6", "7", "8", "9"}
DigitVal(c) ==
    CASE c = "0" -> 0 [] c = "1" -> 1 [] c = "2" -> 2 [] c = "3" -> 3
      [] c = "4" -> 4 [] c = "5" -> 5 [] c = "6" -> 6 [] c = "7" -> 7
      [] c = "8" -> 8 [] c = "9" -> 9

\* the Python str of a text
RECURSIVE Join(_)
Join(text) == IF text = <<>> THEN "" ELSE Head(text) \o Join(Tail(text))

\* str.strip()
RECURSIVE LStrip(_)
LStrip(text) ==
    IF text # <<>> /\ Head(text) = " " THEN LStrip(Tail(text)) ELSE text
RECURSIVE RStrip(_)
RStrip(text) ==
    IF text # <<>> /\ text[Len(text)] = " "
    THEN RStrip(SubSeq(text, 1, Len(text) - 1)) ELSE text
Strip(text) == RStrip(LStrip(text))

\* str.isdigit()
IsDigit(text) == text # <<>> /\ \A i \in DOMAIN text : text[i] \in Digits

\* int() of a run of digits
RECURSIVE IntOfDigits(_)
IntOfDigits(text) ==
    IF text = <<>> THEN 0
    ELSE IntOfDigits(SubSeq(text, 1, Len(text) - 1)) * 10 + DigitVal(text[Len(text)])

\* is_number, on a non-empty text (expression[0] raises on the empty one)
is_number(expression) ==
    (Head(expression) = "-" /\ IsDigit(Tail(expression))) \/ IsDigit(expression)

is_list(expression) ==
    /\ expression # <<>>
    /\ Head(expression) = "("
    /\ expression[Len(expression)] = ")"

\* the run [^\s()]+ at the head of a text
RECURSIVE RunLen(_)
RunLen(text) ==
    IF text = <<>> \/ Head(text) \in {" ", "(", ")"} THEN 0
    ELSE 1 + RunLen(Tail(text))

\* re.findall(r'\(|\)|[^\s()]+', tokens_str)
RECURSIVE tokenize(_)
tokenize(tokens_str) ==
    IF tokens_str = <<>> THEN <<>>
    ELSE IF Head(tokens_str) = " " THEN tokenize(Tail(tokens_str))
    ELSE IF Head(tokens_str) \in {"(", ")"}
    THEN <<<<Head(tokens_str)>>>> \o tokenize(Tail(tokens_str))
    ELSE LET n == RunLen(tokens_str)
         IN  <<SubSeq(tokens_str, 1, n)>>
             \o tokenize(SubSeq(tokens_str, n + 1, Len(tokens_str)))

\* extract_sublist: the tokens up to the matching closer, and the tokens left
RECURSIVE extract_sublist(_, _, _)
extract_sublist(tokens, depth, sub_expr) ==
    IF tokens = <<>> THEN [err |-> "SyntaxError", sub |-> <<>>, rest |-> <<>>]
    ELSE IF Head(tokens) = <<")">> /\ depth = 1
    THEN [err |-> "ok", sub |-> sub_expr, rest |-> Tail(tokens)]
    ELSE extract_sublist(Tail(tokens),
                         IF Head(tokens) = <<"(">> THEN depth + 1
                         ELSE IF Head(tokens) = <<")">> THEN depth - 1
                         ELSE depth,
                         Append(sub_expr, Head(tokens)))

POk(tree) == [err |-> "ok", tree |-> tree]
PFail(e) == [err |-> e, tree |-> NoneV]
Quoted(tree) == ListV(<<SymV("quote"), tree>>)

RECURSIVE parse_expression(_)
RECURSIVE parse_list(_, _)
RECURSIVE handle_quotation(_, _)

\* parse_list: the loop over the tokens left, parsed_tokens built so far
parse_list(tokens, parsed_tokens) ==
    IF tokens = <<>> THEN POk(ListV(parsed_tokens))
    ELSE IF Head(tokens) = <<"(">>
    THEN LET ex == extract_sublist(Tail(tokens), 1, <<>>)
         IN  IF ex.err # "ok" THEN PFail(ex.err)
             ELSE LET sub == parse_list(ex.sub, <<>>)
                  IN  IF sub.err # "ok" THEN sub
                      ELSE parse_list(ex.rest, Append(parsed_tokens, sub.tree))
    ELSE IF Head(tokens) = <<")">> THEN PFail("SyntaxError")
    ELSE IF Head(tokens) = <<"'">> THEN handle_quotation(Tail(tokens), parsed_tokens)
    ELSE LET r == parse_expression(Head(tokens))
         IN  IF r.err # "ok" THEN r
             ELSE parse_list(Tail(tokens), Append(parsed_tokens, r.tree))

\* handle_quotation, then the rest of the loop of parse_list
handle_quotation(tokens, parsed_tokens) ==
    IF tokens = <<>> THEN PFail("SyntaxError")
    ELSE IF Head(tokens) = <<"(">>
    THEN LET ex == extract_sublist(Tail(tokens), 1, <<>>)
         IN  IF ex.err # "ok" THEN PFail(ex.err)
             ELSE LET sub == parse_list(ex.sub, <<>>)
                  IN  IF sub.err # "ok" THEN sub
                      ELSE parse_list(ex.rest, Append(parsed_tokens, Quoted(sub.tree)))
    ELSE LET r == parse_expression(Head(tokens))
         IN  IF r.err # "ok" THEN r
             ELSE parse_list(Tail(tokens), Append(parsed_tokens, Quoted(r.tree)))

parse_expression(text) ==
    LET expression == Strip(text)
    IN  IF expression # <<>> /\ Head(expression) = "'"
        THEN LET r == parse_expression(Strip(Tail(expression)))
             IN  IF r.err # "ok" THEN r ELSE POk(Quoted(r.tree))
        ELSE IF expression = <<>> THEN PFail("IndexError")
        ELSE IF is_number(expression)
        THEN POk(IntV(IF Head(expression) = "-"
                      THEN -IntOfDigits(Tail(expression))
                      ELSE IntOfDigits(expression)))
        ELSE IF is_list(expression)
        THEN LET tokens == tokenize(expression)
             IN  parse_list(SubSeq(tokens, 2, Len(tokens) - 1), <<>>)
        ELSE POk(SymV(Join(expression)))

(***************************************************************************)
(* The session: one Environment, one evaluate_expression call per input    *)
(* line (interpreter.py, loop).  The inputs are parsed expression trees.   *)
(***************************************************************************)
Call1(op, a) == ListV(<<SymV(op), a>>)
Call2(op, a, b) == ListV(<<SymV(op), a, b>>)
Call3(op, a, b, c) == ListV(<<SymV(op), a, b, c>>)

\* names a define or set! input targets: plain names and operator names
DefNames == {"x"}
SetNames == {"x", "y"}
OperatorNames == {"if", "set!"}
\* value operands of define and set!
DefValues == {IntV(5), IntV(6)}
SetValues == {IntV(7), Call2("define", SymV("x"), IntV(5))}

\* operands of an if input
IfConds ==
    {SymV("T"), SymV("NIL"), IntV(1), SymV("x"),
     Call2(">", IntV(2), IntV(1)), Call1("quote", ListV(<<SymV("a")>>))}
IfConseqs == {IntV(10), Call2("define", SymV("x"), IntV(5))}
IfAlts == {IntV(20), Call2("define", SymV("y"), IntV(6))}

Atoms == {SymV("x"), SymV("y"), SymV("T"), IntV(5)}

\* (defun name params body) inputs
FunDefs ==
    { <<"sq", <<SymV("x")>>, Call2("*", SymV("x"), SymV("x"))>>,
      <<"g", <<>>, SymV("x")>>,
      <<"h", <<SymV("x")>>, ListV(<<SymV("g")>>)>>,
      <<"w", <<SymV("x")>>,
        Call2("cons", Call2("set!", SymV("x"), IntV(9)),
                      Call2("define", SymV("y"), SymV("x")))>>,
      <<"r", <<SymV("x")>>, Call1("r", SymV("x"))>>,
      <<"quote", <<SymV("x")>>, IntV(0)>> }
FunNames == {fd[1] : fd \in FunDefs}
DefunForm(fd) == Call3("defun", SymV(fd[1]), ListV(fd[2]), fd[3])

\* argument lists of a call input
ArgLists == {<<>>, <<IntV(5)>>, <<SymV("x")>>, <<IntV(5), IntV(4)>>}

\* names bound at top level in the sessions that define functions
GlobalNames == {"x", "sq"}

\* inputs that call no user function
PlainExprs ==
    {SymV("x"),
     Call2("+", SymV("x"), Call2("*", IntV(2), IntV(3))),
     Call1("car", Call1("quote", ListV(<<ListV(<<SymV("a")>>)>>)))}

\* operands of an arithmetic input
ArithInts == {0, 1, -1, 2, 32768, 65536, INT_MAX, INT_MIN}
MaxArgs == 3
ArithArgs == UNION {[1..n -> {IntV(i) : i \in ArithInts}] : n \in 0..MaxArgs}

NoCall ==
    [expr |-> NoneV, preVars |-> InitVariables, preFns |-> InitFunctions,
     err |-> "none", val |-> NoneV, depth |-> 0, log |-> <<>>]
NoParse == [err |-> "none", tree |-> NoneV]

Init ==
    /\ variables = InitVariables
    /\ functions = InitFunctions
    /\ last = NoCall
    /\ src = <<>>
    /\ ctx = 0
    /\ sugar = NoParse
    /\ longhand = NoParse

\* result = interpreter.environment.evaluate_expression(parsed_expression)
EvalStep(e) ==
    LET r == Evaluate(e, variables, functions)
    IN  /\ variables' = r.st.root
        /\ functions' = r.st.fn
        /\ last' = [expr |-> e, preVars |-> variables, preFns |-> functions,
                    err |-> r.err, val |-> r.val, depth |-> r.depth,
                    log |-> r.st.log]
        /\ UNCHANGED <<src, ctx, sugar, longhand>>

EvalDefine == \E n \in DefNames, e \in DefValues : EvalStep(Call2("define", SymV(n), e))
EvalDefineOperatorName == \E n \in OperatorNames : EvalStep(Call2("define", SymV(n), IntV(1)))
EvalSet == \E n \in SetNames, e \in SetValues : EvalStep(Call2("set!", SymV(n), e))
EvalIf == \E c \in IfConds, a \in IfConseqs, b \in IfAlts : EvalStep(Call3("if", c, a, b))
EvalAtom == \E a \in Atoms : EvalStep(a)
EvalEmptyList == EvalStep(ListV(<<>>))
EvalCarOfEmptyList == EvalStep(Call1("car", ListV(<<>>)))
EvalRedefineIf ==
    EvalStep(DefunForm(<<"if", <<SymV("c"), SymV("a"), SymV("b")>>, SymV("b")>>))

Next ==
    \/ EvalDefine
    \/ EvalDefineOperatorName
    \/ EvalSet
    \/ EvalIf
    \/ EvalAtom
    \/ EvalEmptyList
    \/ EvalCarOfEmptyList
    \/ EvalRedefineIf

Spec == Init /\ [][Next]_vars

(***************************************************************************)
(* Sessions that define and call user functions.                           *)
(***************************************************************************)
EvalDefun == \E fd \in FunDefs : EvalStep(DefunForm(fd))
EvalCall == \E f \in FunNames, args \in ArgLists : EvalStep(ListV(<<SymV(f)>> \o args))
EvalDefineGlobal == \E n \in GlobalNames : EvalStep(Call2("define", SymV(n), IntV(1)))
EvalPlain == \E e \in PlainExprs : EvalStep(e)

NextFun ==
    \/ EvalDefun
    \/ EvalCall
    \/ EvalDefineGlobal
    \/ EvalPlain

SpecFun == Init /\ [][NextFun]_vars

(***************************************************************************)
(* Integer arithmetic: one call of +, - or * on integer literals, in a     *)
(* fresh session.                                                          *)
(***************************************************************************)
ArithExprs == {ListV(<<SymV(op)>> \o args) : op \in {"+", "-", "*"}, args \in ArithArgs}

InitArith ==
    /\ variables = InitVariables
    /\ functions = InitFunctions
    /\ last \in {[NoCall EXCEPT !.expr = e] : e \in ArithExprs}
    /\ src = <<>>
    /\ ctx = 0
    /\ sugar = NoParse
    /\ longhand = NoParse

\* the drawn input is evaluated when its operator is op
EvalArith(op) ==
    /\ last.err = "none"
    /\ last.expr.l[1] = SymV(op)
    /\ EvalStep(last.expr)

EvalAdd == EvalArith("+")
EvalSubtract == EvalArith("-")
EvalMultiply == EvalArith("*")

NextArith ==
    \/ EvalAdd
    \/ EvalSubtract
    \/ EvalMultiply

SpecArith == InitArith /\ [][NextArith]_vars

(***************************************************************************)
(* The parser applied to a quoted form written both ways: 'X and           *)
(* (quote X), as the whole input (ctx 0) or inside a list (ctx 1, 2).      *)
(***************************************************************************)
Alphabet == {"(", ")", "'", " ", "a", "1"}
Texts == UNION {[1..n -> Alphabet] : n \in 1..MaxLen}
Contexts == {0, 1, 2}

\* Well-formed expression texts: an atom, a quote mark before an expression,
\* or a parenthesised run of expressions separated by spaces.  ExprEnd is the
\* position after the expression starting at i, 0 when there is none.
RECURSIVE SkipSpaces(_, _)
SkipSpaces(text, i) ==
    IF i <= Len(text) /\ text[i] = " " THEN SkipSpaces(text, i + 1) ELSE i
RECURSIVE ExprEnd(_, _)
RECURSIVE ListEnd(_, _)
ExprEnd(text, i) ==
    IF i > Len(text) THEN 0
    ELSE IF text[i] = "'" THEN ExprEnd(text, i + 1)
    ELSE IF text[i] = "(" THEN ListEnd(text, SkipSpaces(text, i + 1))
    ELSE IF text[i] \in {" ", ")"} THEN 0
    ELSE i + RunLen(SubSeq(text, i, Len(text)))
ListEnd(text, i) ==
    IF i > Len(text) THEN 0
    ELSE IF text[i] = ")" THEN i + 1
    ELSE LET e == ExprEnd(text, i)
         IN  IF e = 0 \/ e > Len(text) THEN 0
             ELSE IF text[e] = ")" THEN e + 1
             ELSE IF text[e] = " " THEN ListEnd(text, SkipSpaces(text, e))
             ELSE 0
\* an atom holds no quote mark
NoQuoteInAtoms(text) ==
    \A i \in DOMAIN text :
        text[i] = "'" => i < Len(text) /\ text[i + 1] \in {"'", "(", "a", "1"}
                         /\ (i = 1 \/ text[i - 1] \in {"'", "(", " "})
WellFormed(text) == ExprEnd(text, 1) = Len(text) + 1 /\ NoQuoteInAtoms(text)

SugarOf(text) == <<"'">> \o text
LonghandOf(text) == <<"(", "q", "u", "o", "t", "e", " ">> \o text \o <<")">>
Embed(q, c) ==
    CASE c = 0 -> q
      [] c = 1 -> <<"(", "f", " ">> \o q \o <<")">>
      [] c = 2 -> <<"(", "f", " ", "(", "g", " ">> \o q \o <<")", " ", "b", ")">>

InitParse ==
    /\ variables = InitVariables
    /\ functions = InitFunctions
    /\ last = NoCall
    /\ src \in {text \in Texts : WellFormed(text)}
    /\ ctx \in Contexts
    /\ sugar = NoParse
    /\ longhand = NoParse

ParseSugar ==
    /\ sugar = NoParse
    /\ sugar' = parse_expression(Embed(SugarOf(src), ctx))
    /\ UNCHANGED <<variables, functions, last, src, ctx, longhand>>

ParseLonghand ==
    /\ longhand = NoParse
    /\ longhand' = parse_expression(Embed(LonghandOf(src), ctx))
    /\ UNCHANGED <<variables, functions, last, src, ctx, sugar>>

NextParse ==
    \/ ParseSugar
    \/ ParseLonghand

SpecParse == InitParse /\ [][NextParse]_vars

(***************************************************************************)
(* Properties.  They read the record of the last top-level call: the       *)
(* expression, the session's mappings before it, its outcome, the deepest  *)
(* activation and the user_function invocations it made.                   *)
(***************************************************************************)
Called == last.err # "none"
IsForm(e, op, n) == e.t = "list" /\ Len(e.l) = n + 1 /\ e.l[1] = SymV(op)
\* the context the last call started in
Pre == Ctx(last.preVars, last.preFns)

\* C1: (define name v) succeeds whether or not name is bound, returns name
\* and leaves name bound to v.
C1_DefineOverwrites ==
    (Called /\ IsForm(last.expr, "define", 2)
       /\ last.expr.l[2].t = "sym" /\ last.expr.l[3].t = "int")
    => /\ last.err = "ok"
       /\ last.val = last.expr.l[2]
       /\ last.expr.l[2].s \in DOMAIN variables
       /\ variables[last.expr.l[2].s] = last.expr.l[3]

\* C2: evaluating the empty list, alone or as the operand of car, returns
\* nil, raises nothing and leaves both mappings unchanged.
C2_EmptyListIsNil ==
    (Called /\ last.expr \in {ListV(<<>>), Call1("car", ListV(<<>>))})
    => /\ last.err = "ok"
       /\ last.val = NoneV
       /\ variables = last.preVars
       /\ functions = last.preFns

\* the outcome (set! name e) must have, e evaluated first
SetOutcome ==
    LET name == last.expr.l[2].s
        r == evaluate_expression(last.expr.l[3], Pre, 2)
    IN  r.err = "ok"
        => IF name \notin DOMAIN r.st.root
           THEN /\ last.err = "NameError"
                /\ name \notin DOMAIN variables
                /\ variables = r.st.root
           ELSE /\ last.err = "ok"
                /\ last.val = SymV(name)
                /\ variables = Put(r.st.root, name, r.val)
                /\ Evaluate(SymV(name), variables, functions).val = r.val

\* C3 as stated: set! evaluates e, fails with Undefined-Variable and binds
\* nothing when name is unbound, otherwise rebinds name and returns it.
C3_SetOnlyOverwrites ==
    (Called /\ IsForm(last.expr, "set!", 2) /\ last.expr.l[2].t = "sym")
    => SetOutcome

\* C3 amended: the same, when set! is not itself bound as a variable.
C3_SetOnlyOverwritesUnshadowed ==
    (Called /\ IsForm(last.expr, "set!", 2) /\ last.expr.l[2].t = "sym"
       /\ "set!" \notin DOMAIN last.preVars)
    => SetOutcome

C3_Witness ==
    /\ last.expr = Call2("set!", SymV("y"), Call2("define", SymV("x"), IntV(5)))
    /\ "set!" \notin DOMAIN last.preVars
    /\ "x" \notin DOMAIN last.preVars
    /\ last.err = "NameError"
    /\ "x" \in DOMAIN variables

\* the outcome (if c a b) must have: c, a, b evaluated in that order, then
\* the value of a chosen exactly when the value of c is True
IfOutcome ==
    LET rc == evaluate_expression(last.expr.l[2], Pre, 2)
        ra == evaluate_expression(last.expr.l[3], rc.st, 2)
        rb == evaluate_expression(last.expr.l[4], ra.st, 2)
    IN  (rc.err = "ok" /\ ra.err = "ok" /\ rb.err = "ok")
        => /\ last.err = "ok"
           /\ variables = rb.st.root
           /\ functions = rb.st.fn
           /\ last.val = IF rc.val = TrueV THEN ra.val ELSE rb.val

\* C7 as stated: if evaluates its three operands left to right, keeps the
\* effects of both branches, and selects on the condition being True.
C7_IfSelectsValue ==
    (Called /\ IsForm(last.expr, "if", 3)) => IfOutcome

\* C7 amended: the same, when if is neither bound as a variable nor
\* redefined by defun.
C7_IfSelectsValueUnshadowed ==
    (Called /\ IsForm(last.expr, "if", 3) /\ "if" \notin DOMAIN last.preVars
       /\ last.preFns["if"] = Builtin("if"))
    => IfOutcome

C7_Witness ==
    /\ last.expr = Call3("if", IntV(1), Call2("define", SymV("x"), IntV(5)),
                         Call2("define", SymV("y"), IntV(6)))
    /\ "if" \notin DOMAIN last.preVars
    /\ last.preFns["if"] = Builtin("if")
    /\ last.err = "ok"
    /\ last.val = SymV("y")
    /\ {"x", "y"} \subseteq DOMAIN variables \ DOMAIN last.preVars

\* operators evaluate_expression and evaluate_function_call dispatch on by
\* name before they look at the table entry
SpecialOperators == {"quote", "set!", "defun", "mapcar"}

\* the child mapping a call must start from: base overlaid with the
\* parameters bound positionally (the last of a repeated parameter wins)
ExpectedChild(base, params, args) ==
    LET names == {params[i].s : i \in DOMAIN params}
    IN  [k \in (DOMAIN base) \cup names |->
            IF k \in names
            THEN args[CHOOSE i \in DOMAIN params :
                          /\ params[i].s = k
                          /\ \A j \in DOMAIN params : params[j].s = k => j <= i]
            ELSE base[k]]

\* the outcome (defun f params body) must have
DefunOutcome ==
    /\ last.err = "ok"
    /\ last.val = last.expr.l[2]
    /\ variables = last.preVars
    /\ last.expr.l[2].s \in DOMAIN functions
    /\ functions[last.expr.l[2].s] =
           UserFn(last.expr.l[2].s, last.expr.l[3].l, last.expr.l[4])

\* the outcome a call of the user function f must have: the arguments
\* evaluated left to right by the caller, then an arity failure with the
\* body not run, or the value of the body under the parameter bindings
CallOutcome ==
    LET f == last.preFns[last.expr.l[1].s]
        ra == EvalOperands(Tail(last.expr.l), Pre, 2)
    IN  ra.err = "ok"
        => IF Len(ra.vals) # Len(f.params)
           THEN /\ last.err = "TypeError"
                /\ last.log = ra.st.log
                /\ variables = ra.st.root
                /\ functions = ra.st.fn
           ELSE LET rb == evaluate_expression(
                              f.body,
                              [ra.st EXCEPT !.top = FALSE,
                                            !.loc = ExpectedChild(ra.st.root, f.params, ra.vals)],
                              2)
                IN  /\ last.err = rb.err
                    /\ last.val = rb.val
                    /\ variables = rb.st.root
                    /\ functions = rb.st.fn

IsDefun == Called /\ IsForm(last.expr, "defun", 3)
              /\ last.expr.l[2].t = "sym" /\ last.expr.l[3].t = "list"
IsUserCall ==
    /\ Called
    /\ last.expr.t = "list" /\ last.expr.l # <<>> /\ last.expr.l[1].t = "sym"
    /\ last.expr.l[1].s \in DOMAIN last.preFns
    /\ last.preFns[last.expr.l[1].s].kind = "user"
SquareOfFive ==
    (/\ last.expr = Call1("sq", IntV(5))
     /\ last.preFns["sq"] = UserFn("sq", <<SymV("x")>>, Call2("*", SymV("x"), SymV("x"))))
    => (last.err = "ok" /\ last.val = IntV(25))

\* C4 as stated: defun registers f and returns it; a later call evaluates
\* its arguments, fails on an arity mismatch without running the body, and
\* otherwise returns the value of the body under the parameter bindings.
C4_DefunAndCall ==
    /\ IsDefun => DefunOutcome
    /\ IsUserCall => (CallOutcome /\ SquareOfFive)

\* C4 amended: the same, for f other than the specially dispatched names and
\* while neither defun nor f is bound as a variable or defun redefined.
C4_DefunAndCallUnshadowed ==
    /\ (IsDefun /\ "defun" \notin DOMAIN last.preVars
          /\ last.preFns["defun"] = Builtin("defun"))
       => DefunOutcome
    /\ (IsUserCall /\ last.expr.l[1].s \notin DOMAIN last.preVars
          /\ last.expr.l[1].s \notin SpecialOperators)
       => (CallOutcome /\ SquareOfFive)

C4_Witness ==
    /\ last.expr = Call1("sq", IntV(5))
    /\ IsUserCall
    /\ "sq" \notin DOMAIN last.preVars
    /\ last.val = IntV(25)

C4_WitnessArity ==
    /\ last.expr = Call2("sq", IntV(5), IntV(4))
    /\ IsUserCall
    /\ "sq" \notin DOMAIN last.preVars
    /\ last.err = "TypeError"

\* C8 as stated: the child mapping of every user-function invocation holds
\* every variable of the Environment that made the call, with the same
\* value, unless a parameter shadows it.
C8_ChildCopiesCaller ==
    \A i \in DOMAIN last.log :
        \A k \in (DOMAIN last.log[i].caller) \ last.log[i].params :
            /\ k \in DOMAIN last.log[i].child
            /\ last.log[i].child[k] = last.log[i].caller[k]

\* C8 amended: the child mapping is the session Environment's mapping at
\* the time of the call overlaid with the parameters, whoever makes the
\* call; g called by h sees the session's x, or the bare symbol.
C8_ChildCopiesSession ==
    /\ \A i \in DOMAIN last.log :
          /\ DOMAIN last.log[i].child = (DOMAIN last.log[i].root) \cup last.log[i].params
          /\ \A k \in (DOMAIN last.log[i].root) \ last.log[i].params :
                last.log[i].child[k] = last.log[i].root[k]
    /\ (/\ last.expr = Call1("h", IntV(5))
        /\ "h" \notin DOMAIN last.preVars
        /\ "g" \in DOMAIN last.preFns /\ "h" \in DOMAIN last.preFns
        /\ last.preFns["g"] = UserFn("g", <<>>, SymV("x"))
        /\ last.preFns["h"] = UserFn("h", <<SymV("x")>>, ListV(<<SymV("g")>>)))
       => /\ last.err = "ok"
          /\ last.val = IF "x" \in DOMAIN last.preVars THEN last.preVars["x"]
                        ELSE SymV("x")

C8_Witness ==
    /\ last.expr = Call1("h", IntV(5))
    /\ last.err = "ok"
    /\ Len(last.log) = 2
    /\ last.log[1].name = "g"
    /\ last.log[1].caller # last.log[1].root
    /\ last.log[1].caller["x"] = IntV(5)

\* nesting depth of an expression: 1 for an atom or the empty list
RECURSIVE ExprDepth(_)
ExprDepth(e) ==
    IF e.t # "list" \/ e.l = <<>> THEN 1
    ELSE 1 + ExprDepth(e.l[CHOOSE i \in DOMAIN e.l :
                               \A j \in DOMAIN e.l : ExprDepth(e.l[j]) <= ExprDepth(e.l[i])])

\* C9 as stated: every evaluation returns or fails, and never nests
\* evaluate deeper than the input expression nests.
C9_DepthWithinExpression ==
    Called => (last.err # "RecursionError" /\ last.depth <= ExprDepth(last.expr))

\* C9 amended: every evaluation returns or fails; one that invokes no user
\* function never nests deeper than the input nests; a self-calling
\* function is stopped by the host's recursion limit.
C9_DepthWithinExpressionWithoutCalls ==
    Called => /\ last.log = <<>> => (last.err # "RecursionError"
                                     /\ last.depth <= ExprDepth(last.expr))
              /\ last.depth <= RecursionLimit + 1
              /\ last.err = "RecursionError" <=> last.depth = RecursionLimit + 1

C9_Witness ==
    /\ last.expr = Call2("+", SymV("x"), Call2("*", IntV(2), IntV(3)))
    /\ "x" \in DOMAIN last.preVars
    /\ last.err = "ok"
    /\ last.depth = 3

C9_WitnessRecursion ==
    /\ last.expr = Call1("r", IntV(5))
    /\ last.err = "RecursionError"

\* C10: when a user-function call returns, the variable mapping of the
\* Environment that made the call is what it was just before the call.
C10_CallerVariablesUnchanged ==
    \A i \in DOMAIN last.log :
        last.log[i].err = "ok" => last.log[i].callerAfter = last.log[i].caller

\* the mathematical sum and product of integer operands
RECURSIVE MathSum(_)
MathSum(args) ==
    IF args = <<>> THEN BigOf(0)
    ELSE BigAdd(MathSum(SubSeq(args, 1, Len(args) - 1)), BigOf(args[Len(args)].n))
RECURSIVE MathProduct(_)
MathProduct(args) ==
    IF args = <<>> THEN BigOf(1)
    ELSE BigMul(MathProduct(SubSeq(args, 1, Len(args) - 1)), BigOf(args[Len(args)].n))
\* the closed interval [-2147483648, 2147483647]
InInterval(m) == ~BigLess(m, BigOf(INT_MIN)) /\ ~BigLess(BigOf(INT_MAX), m)

\* the call fails with Integer-Overflow exactly when m is outside the
\* interval, and returns m otherwise
RangeRule(m) ==
    IF InInterval(m) THEN last.err = "ok" /\ last.val = IntV(SmallOf(m))
    ELSE last.err = "OverflowError"

IsArith(op) == Called /\ last.expr.t = "list" /\ last.expr.l # <<>>
                  /\ last.expr.l[1] = SymV(op)
                  /\ \A i \in 2..Len(last.expr.l) : last.expr.l[i].t = "int"
Operands == Tail(last.expr.l)

\* C5 as stated: +, - and * on integers fail with Integer-Overflow exactly
\* when the result of the whole operation is outside the 32-bit interval,
\* and return the exact result otherwise.
C5_RangeRuleOnResult ==
    /\ IsArith("+") => RangeRule(MathSum(Operands))
    /\ (IsArith("-") /\ Len(Operands) = 2)
       => RangeRule(BigAdd(BigOf(Operands[1].n), BigNeg(BigOf(Operands[2].n))))
    /\ IsArith("*") => RangeRule(MathProduct(Operands))

\* C5 amended: + and - as stated; * fails exactly when the product of some
\* leading run of its operands is outside the interval, and returns the
\* exact product otherwise.
C5_RangeRuleOnPartialProducts ==
    /\ IsArith("+") => RangeRule(MathSum(Operands))
    /\ (IsArith("-") /\ Len(Operands) = 2)
       => RangeRule(BigAdd(BigOf(Operands[1].n), BigNeg(BigOf(Operands[2].n))))
    /\ IsArith("*")
       => IF \A k \in 1..Len(Operands) : InInterval(MathProduct(SubSeq(Operands, 1, k)))
          THEN last.err = "ok" /\ last.val = IntV(SmallOf(MathProduct(Operands)))
          ELSE last.err = "OverflowError"

C5_Witness ==
    /\ last.expr = Call3("*", IntV(65536), IntV(65536), IntV(0))
    /\ last.err = "OverflowError"
    /\ InInterval(MathProduct(Operands))

C5_WitnessInRange ==
    /\ last.expr = Call3("*", IntV(0), IntV(65536), IntV(65536))
    /\ last.err = "ok"
    /\ last.val = IntV(0)

\* C6: the input written with 'X and the input written with (quote X)
\* parse to identical trees, X the whole input or an element of a list.
C6_QuoteShorthandIsSugar ==
    (sugar # NoParse /\ longhand # NoParse)
    => (sugar.err = "ok" /\ longhand = sugar)
====
